---- MODULE Spec2Model ----
(***************************************************************************)
(* A model of the OpenAI-shaped provider of q                              *)
(* (internal/providers/openai/openai.go): the conversation history, the    *)
(* four request operations, ResetChat, and the server-sent-event loop of   *)
(* Provider.send, driven by an injected transport and a credential store.  *)
(***************************************************************************)
EXTENDS Integers, Sequences, FiniteSets, TLC

(* ------------------------------ bounds -------------------------------- *)

\* Chat calls made between two resets.
MaxTurns == 2
\* The longest streamed body, in lines.
MaxLines == 3
\* ResetChat calls made while chat calls run side by side.
MaxResets == 1

(* ------------------------- program constants -------------------------- *)

ssePrefix == "data: "
doneSentinel == "[DONE]"
StatusOK == 200
StatusUnauthorized == 401

\* The nil error.
nil == "nil"
errNoKey == "no API key set for openai"
errEmpty == "openai: empty response"
errDecode == "json decode error"
errCanceled == "context canceled"
errRead == "body read error"
errInvalidKey == "InvalidAPIKeyError"
errAPI == "API error: "
errStatus == "API request failed with status "

(* ------------------------------ inputs -------------------------------- *)

\* Texts a caller sends.
Msgs == {"m1", "m2"}

\* What config.GetAPIKey returns: (key, err).
Creds ==
  { [key |-> "", err |-> "config load error"],
    [key |-> "", err |-> nil],
    [key |-> "sk", err |-> nil] }

NoCred == [key |-> "", err |-> nil]

\* One line of a streamed body: the text before the payload, the payload as
\* written, and (for a payload that is JSON of the chunk shape) the delta
\* contents of its choices.
Line(pre, raw, choices) == [pre |-> pre, raw |-> raw, choices |-> choices]

LSentinel == Line(ssePrefix, doneSentinel, <<>>)
LBad == Line(ssePrefix, "{bad", <<>>)
LNoChoice == Line(ssePrefix, "json", <<>>)
LDelta(c) == Line(ssePrefix, "json", <<c>>)
LComment == Line("", "json", <<"c">>)
\* A frame with two choices, and the sentinel text after "data:" without the
\* space that belongs to the prefix.
LTwoChoices == Line(ssePrefix, "json", <<"b", "a">>)
LNoSpace == Line("data:", doneSentinel, <<>>)

LineKinds ==
  { LSentinel, LBad, LNoChoice, LComment, LTwoChoices, LNoSpace,
    LDelta("a"), LDelta("b"), LDelta("") }

SeqsUpTo(S, n) == UNION { [1..k -> S] : k \in 0..n }

\* The body of an error response, as handleAPIError's json.Unmarshal sees it:
\* whether it parses, the words of error.code and error.message, and the body
\* as the text it is.
ErrBody(parses, code, message) ==
  [parses |-> parses, code |-> code, message |-> message,
   raw |-> IF parses THEN "json" ELSE "{bad"]

NoErrBody == ErrBody(FALSE, <<>>, <<>>)

\* What the transport does with one request.
Response(doErr, status, decodes, choices, errBody, lines, readErr) ==
  [doErr |-> doErr, status |-> status, decodes |-> decodes, choices |-> choices,
   errBody |-> errBody, lines |-> lines, readErr |-> readErr]

NoResponse == Response(nil, StatusOK, FALSE, <<>>, NoErrBody, <<>>, FALSE)

RDoErr(e) == Response(e, StatusOK, FALSE, <<>>, NoErrBody, <<>>, FALSE)
RStatus(s, b) == Response(nil, s, FALSE, <<>>, b, <<>>, FALSE)
RJson(decodes, choices) ==
  Response(nil, StatusOK, decodes, choices, NoErrBody, <<>>, FALSE)
RStream(lines, readErr) ==
  Response(nil, StatusOK, FALSE, <<>>, NoErrBody, lines, readErr)

FailResponses ==
  { RDoErr("transport error"), RDoErr(errCanceled),
    RStatus(StatusUnauthorized, ErrBody(TRUE, <<>>, <<"bad">>)),
    RStatus(500, NoErrBody) }

JsonResponses ==
  { RJson(FALSE, <<>>), RJson(TRUE, <<>>), RJson(TRUE, <<"">>),
    RJson(TRUE, <<"r1">>), RJson(TRUE, <<"r2", "r1">>) }

\* Streamed bodies for the runs that follow a conversation over several turns:
\* one that ends at the sentinel with text, one that breaks off on a read
\* error after a delta, and one that ends cleanly without any text.
ChatBodies ==
  { RStream(<<LDelta("a"), LBad, LDelta("b"), LSentinel>>, FALSE),
    RStream(<<LDelta("a")>>, TRUE),
    RStream(<<LComment>>, FALSE) }

\* Every streamed body of at most MaxLines lines.
AllBodies ==
  { RStream(ls, e) : ls \in SeqsUpTo(LineKinds, MaxLines), e \in BOOLEAN }

(* ------------------------------- state -------------------------------- *)

VARIABLES
  history,   \* Provider.history
  pc,        \* "idle" (nothing called yet), "streaming" (inside send's loop), "done"
  op,        \* the operation called last
  msg,       \* its prompt or message text
  cred,      \* what the credential store answered it
  resp,      \* the transport's response to its request
  ctxDone,   \* whether its context has been cancelled
  pos,       \* lines of the body the scanner has delivered
  acc,       \* send's fullResponse
  out,       \* the strings.Builder of Stream / ChatStream
  sink,      \* what the operation has printed to standard output
  ret,       \* what the operation returned: [text, err]
  calls,     \* calls of client.Do made by the operation
  req,       \* the messages of the request handed to client.Do
  hist0,     \* the history when the operation was called
  turns      \* the chat calls since the last reset, each with its outcome

\* The registry of providers (internal/providers/providers.go).
VARIABLES
  data,      \* Registry.data: the provider bound to each registered name
  regCall,   \* the registry method called last: [op, arg, ret, panicked], and
             \* whether a call before it panicked
  bound,     \* log: every provider Register has stored, in the order stored
  regMu      \* Registry.mu: "free" or "locked"

provVars ==
  << history, pc, op, msg, cred, resp, ctxDone, pos, acc, out, sink, ret, calls,
     req, hist0, turns >>

regVars == <<data, regCall, bound, regMu>>

\* Callers that use one provider at the same time.
VARIABLES
  mu,        \* Provider.mu: 0 when free, else the caller that last locked it
  procs,     \* each caller's position in its chat call, and its locals
  resets     \* ResetChat calls made while the callers run

concVars == <<mu, procs, resets>>

vars == <<provVars, regVars, concVars>>

NoRet == [text |-> "", err |-> nil]

\* An interface value holding no provider, and the registry before any call.
NoProvider == [id |-> 0, name |-> <<>>]
NoRegCall ==
  [op |-> "none", arg |-> <<>>, ret |-> <<>>, panicked |-> FALSE,
   afterPanic |-> FALSE]

\* The callers that run side by side, one chat call each.
Procs == {1, 2}

\* What copyHistory hands to send: the messages, and whether they are the
\* history's own storage (an alias) or storage of their own (a copy).
Snapshot(alias, msgs) == [alias |-> alias, msgs |-> msgs]

\* A caller that has not called yet.
NoProc ==
  [pc |-> "idle", op |-> "none", tmp |-> <<>>, snap |-> Snapshot(FALSE, <<>>),
   snapAt |-> <<>>, wire |-> <<>>, resp |-> NoResponse, text |-> "", err |-> nil]

Init ==
  /\ history = <<>>
  /\ pc = "idle"
  /\ op = "none"
  /\ msg = ""
  /\ cred = NoCred
  /\ resp = NoResponse
  /\ ctxDone = FALSE
  /\ pos = 0
  /\ acc = ""
  /\ out = ""
  /\ sink = ""
  /\ ret = NoRet
  /\ calls = 0
  /\ req = <<>>
  /\ hist0 = <<>>
  /\ turns = <<>>
  /\ data = [n \in {} |-> NoProvider]
  /\ regCall = NoRegCall
  /\ bound = <<>>
  /\ regMu = "free"
  /\ mu = 0
  /\ procs = [p \in Procs |-> NoProc]
  /\ resets = 0

(* ----------------------- helpers of the provider ---------------------- *)

Message(role, content) == [role |-> role, content |-> content]

\* A push that puts the message in front.
push_prepend(h, role, content) == <<Message(role, content)>> \o h

\* A push that writes over the last message.
push_overwrite(h, role, content) ==
  IF h = <<>> THEN <<Message(role, content)>>
  ELSE [h EXCEPT ![Len(h)] = Message(role, content)]

\* p.history = append(p.history, Message{role, content}), under p.mu.
push(h, role, content) == Append(h, Message(role, content))

\* A copy that misses the message pushed last.
copyHistory_stale(h) == SubSeq(h, 1, Len(h) - 1)

\* append([]Message(nil), p.history...), under p.mu.
copyHistory(h) == [i \in 1..Len(h) |-> h[i]]

\* A reset that keeps the message stored last.
resetHistory_keepLast(h) == IF h = <<>> THEN <<>> ELSE <<h[Len(h)]>>

\* A reset that keeps the first message.
resetHistory_keepFirst(h) == IF h = <<>> THEN <<>> ELSE <<Head(h)>>

\* p.history = nil, under p.mu.
resetHistory(h) == <<>>

\* strings.Contains, on a text given as its words.
Contains(words, w) == \E i \in 1..Len(words) : words[i] = w

\* A text given as its words, as the one string it is.
RECURSIVE joinWords(_)
joinWords(words) ==
  IF words = <<>> THEN ""
  ELSE IF Len(words) = 1 THEN words[1]
  ELSE words[1] \o " " \o joinWords(Tail(words))

\* A classification that goes by the status alone.
handleAPIError_statusOnly(status, body) ==
  IF body.parses
    THEN IF status = StatusUnauthorized
           THEN errInvalidKey
           ELSE errAPI \o joinWords(body.message)
    ELSE errStatus \o ToString(status) \o ": " \o body.raw

handleAPIError(status, body) ==
  IF body.parses
    THEN IF \/ status = StatusUnauthorized
            \/ Contains(body.code, "invalid_api_key")
            \/ Contains(body.message, "Incorrect API key")
           THEN errInvalidKey
           ELSE errAPI \o joinWords(body.message)
    ELSE errStatus \o ToString(status) \o ": " \o body.raw

\* strings.HasPrefix(line, prefix) and strings.TrimPrefix(line, prefix).
HasPrefix(line, prefix) == line.pre = prefix
TrimPrefix(line, prefix) ==
  IF line.pre = prefix THEN line.raw ELSE line.pre \o line.raw

\* json.Unmarshal of a frame's payload into a chatResp.
Unmarshal(line) ==
  IF line.raw = "json"
    THEN [ok |-> TRUE, choices |-> line.choices]
    ELSE [ok |-> FALSE, choices |-> <<>>]

\* A builder that puts what it is given in front of what it holds.
WriteString_front(b, s) == s \o b

\* strings.Builder.WriteString, and fmt.Print onto standard output.
WriteString(b, s) == b \o s
fmtPrint(w, s) == w \o s

SendResult(called, done, text, err) ==
  [called |-> called, done |-> done, text |-> text, err |-> err]

\* A decoding that demands a choice but accepts one without content.
decodeResponse_noEmptyCheck(r) ==
  IF ~r.decodes
    THEN SendResult(TRUE, TRUE, "", errDecode)
    ELSE IF Len(r.choices) = 0
           THEN SendResult(TRUE, TRUE, "", errEmpty)
           ELSE SendResult(TRUE, TRUE, r.choices[1], nil)

\* The non-streaming tail of send: decode the body, demand content.
decodeResponse(r) ==
  IF ~r.decodes
    THEN SendResult(TRUE, TRUE, "", errDecode)
    ELSE IF Len(r.choices) = 0 \/ r.choices[1] = ""
           THEN SendResult(TRUE, TRUE, "", errEmpty)
           ELSE SendResult(TRUE, TRUE, r.choices[1], nil)

\* A send that does not look at the key it was given.
sendHead_noKeyCheck(c, r, stream) ==
  IF c.err # nil THEN SendResult(FALSE, TRUE, "", c.err)
  ELSE IF r.doErr # nil THEN SendResult(TRUE, TRUE, "", r.doErr)
  ELSE IF r.status # StatusOK
    THEN SendResult(TRUE, TRUE, "", handleAPIError(r.status, r.errBody))
  ELSE IF ~stream THEN decodeResponse(r)
  ELSE SendResult(TRUE, FALSE, "", nil)

\* A send that wraps the transport's error in one of its own.
sendHead_wrapErr(c, r, stream) ==
  IF c.err # nil THEN SendResult(FALSE, TRUE, "", c.err)
  ELSE IF c.key = "" THEN SendResult(FALSE, TRUE, "", errNoKey)
  ELSE IF r.doErr # nil
    THEN SendResult(TRUE, TRUE, "", "openai: request failed: " \o r.doErr)
  ELSE IF r.status # StatusOK
    THEN SendResult(TRUE, TRUE, "", handleAPIError(r.status, r.errBody))
  ELSE IF ~stream THEN decodeResponse(r)
  ELSE SendResult(TRUE, FALSE, "", nil)

\* send up to the point where the body is read: the credential lookup, the
\* transport call, the status check and, when not streaming, the decoding.
\* done = FALSE means the streaming loop follows.
sendHead(c, r, stream) ==
  IF c.err # nil THEN SendResult(FALSE, TRUE, "", c.err)
  ELSE IF c.key = "" THEN SendResult(FALSE, TRUE, "", errNoKey)
  ELSE IF r.doErr # nil THEN SendResult(TRUE, TRUE, "", r.doErr)
  ELSE IF r.status # StatusOK
    THEN SendResult(TRUE, TRUE, "", handleAPIError(r.status, r.errBody))
  ELSE IF ~stream THEN decodeResponse(r)
  ELSE SendResult(TRUE, FALSE, "", nil)

\* One pass of the streaming loop over a line the scanner delivered: what the
\* loop does next, and the delta it hands to onDelta.
LoopStep(next, delta, err) == [next |-> next, delta |-> delta, err |-> err]

\* A loop that does not know the sentinel.
scanLine_noSentinel(line, cancelled) ==
  IF cancelled THEN LoopStep("return", "", errCanceled)
  ELSE IF ~HasPrefix(line, ssePrefix) THEN LoopStep("continue", "", nil)
  ELSE IF ~Unmarshal(line).ok \/ Len(Unmarshal(line).choices) = 0
    THEN LoopStep("continue", "", nil)
  ELSE LoopStep("delta", Unmarshal(line).choices[1], nil)

\* A loop that gives up on the first frame it cannot parse.
scanLine_abortOnBad(line, cancelled) ==
  IF cancelled THEN LoopStep("return", "", errCanceled)
  ELSE IF ~HasPrefix(line, ssePrefix) THEN LoopStep("continue", "", nil)
  ELSE IF TrimPrefix(line, ssePrefix) = doneSentinel THEN LoopStep("break", "", nil)
  ELSE IF ~Unmarshal(line).ok THEN LoopStep("return", "", errDecode)
  ELSE IF Len(Unmarshal(line).choices) = 0 THEN LoopStep("continue", "", nil)
  ELSE LoopStep("delta", Unmarshal(line).choices[1], nil)

\* A loop that never looks at the context.
scanLine_noCtx(line, cancelled) ==
  IF ~HasPrefix(line, ssePrefix) THEN LoopStep("continue", "", nil)
  ELSE IF TrimPrefix(line, ssePrefix) = doneSentinel THEN LoopStep("break", "", nil)
  ELSE IF ~Unmarshal(line).ok \/ Len(Unmarshal(line).choices) = 0
    THEN LoopStep("continue", "", nil)
  ELSE LoopStep("delta", Unmarshal(line).choices[1], nil)

scanLine(line, cancelled) ==
  IF cancelled THEN LoopStep("return", "", errCanceled)
  ELSE IF ~HasPrefix(line, ssePrefix) THEN LoopStep("continue", "", nil)
  ELSE IF TrimPrefix(line, ssePrefix) = doneSentinel THEN LoopStep("break", "", nil)
  ELSE IF ~Unmarshal(line).ok \/ Len(Unmarshal(line).choices) = 0
    THEN LoopStep("continue", "", nil)
  ELSE LoopStep("delta", Unmarshal(line).choices[1], nil)

\* A scanner that hands out the line it is at without moving past it.
scannerScan_peek(p) == p

\* scanner.Scan() returning true: the scanner has moved on by one line.
scannerScan(p) == p + 1

\* scanner.Err() once Scan has returned false or the loop was left by break.
scannerErr(r, atEnd) == IF atEnd /\ r.readErr THEN errRead ELSE nil

\* A ChatPrompt that takes the user message back when send failed.
chatPromptHistory_rollback(h, text, err) ==
  IF err = nil THEN push(h, "assistant", text) ELSE SubSeq(h, 1, Len(h) - 1)

\* A ChatPrompt that stores what send returned, failed or not.
chatPromptHistory_always(h, text, err) == push(h, "assistant", text)

\* ChatPrompt after send: the reply is stored only when send succeeded.
chatPromptHistory(h, text, err) ==
  IF err = nil THEN push(h, "assistant", text) ELSE h

\* A ChatStream that stores whatever was streamed, failed or not.
chatStreamHistory_partial(h, text, err) ==
  IF Len(text) > 0 THEN push(h, "assistant", text) ELSE h

\* A ChatStream that stores the reply of every successful send, empty or not.
chatStreamHistory_empty(h, text, err) ==
  IF err = nil THEN push(h, "assistant", text) ELSE h

\* ChatStream after send: the reply is stored only when send succeeded and
\* the builder is not empty.
chatStreamHistory(h, text, err) ==
  IF err = nil /\ Len(text) > 0 THEN push(h, "assistant", text) ELSE h

(* ------------------------------ actions ------------------------------- *)

Idle == pc \in {"idle", "done"}

\* The content the transport's response carries for a non-streamed request.
Carried(r) == IF r.decodes /\ Len(r.choices) > 0 THEN r.choices[1] ELSE ""

\* One chat call in the log: its operation and message, whether it succeeded,
\* and the reply text the transport carried when it did.
Turn(o, m, err, carried) ==
  [op |-> o, msg |-> m, ok |-> (err = nil),
   carried |-> IF err = nil THEN carried ELSE ""]

\* What every call sets when it starts: its arguments, a fresh context, an
\* untouched scanner, builder and output, and the request it hands over.
Begin(o, m, c, r, s, msgs) ==
  /\ Idle
  /\ op' = o
  /\ msg' = m
  /\ cred' = c
  /\ resp' = r
  /\ ctxDone' = FALSE
  /\ pos' = 0
  /\ acc' = ""
  /\ out' = ""
  /\ sink' = ""
  /\ hist0' = history
  /\ calls' = IF s.called THEN 1 ELSE 0
  /\ req' = IF s.called THEN msgs ELSE <<>>
  /\ UNCHANGED <<regVars, concVars>>

\* A one-shot call that sends the conversation along with the prompt.
promptMessages_withHistory(h, m) == Append(h, Message("user", m))

\* The messages Prompt and Stream hand to send: []Message{{"user", prompt}},
\* whatever the history h holds.
promptMessages(h, m) == <<Message("user", m)>>

Prompt(m, c, r) ==
  LET msgs == promptMessages(history, m)
      s == sendHead(c, r, FALSE)
  IN /\ Begin("Prompt", m, c, r, s, msgs)
     /\ pc' = "done"
     /\ ret' = [text |-> s.text, err |-> s.err]
     /\ UNCHANGED <<history, turns>>

Stream(m, c, r) ==
  LET msgs == promptMessages(history, m)
      s == sendHead(c, r, TRUE)
  IN /\ Begin("Stream", m, c, r, s, msgs)
     /\ IF s.done
          THEN pc' = "done" /\ ret' = [text |-> "", err |-> s.err]
          ELSE pc' = "streaming" /\ ret' = NoRet
     /\ UNCHANGED <<history, turns>>

ChatPrompt(m, c, r) ==
  LET h1 == push(history, "user", m)
      msgs == copyHistory(h1)
      s == sendHead(c, r, FALSE)
  IN /\ Len(turns) < MaxTurns
     /\ Begin("ChatPrompt", m, c, r, s, msgs)
     /\ pc' = "done"
     /\ history' = chatPromptHistory(h1, s.text, s.err)
     /\ ret' = [text |-> s.text, err |-> s.err]
     /\ turns' = Append(turns, Turn("ChatPrompt", m, s.err, Carried(r)))

ChatStream(m, c, r) ==
  LET h1 == push(history, "user", m)
      msgs == copyHistory(h1)
      s == sendHead(c, r, TRUE)
  IN /\ Len(turns) < MaxTurns
     /\ Begin("ChatStream", m, c, r, s, msgs)
     /\ IF s.done
          THEN /\ pc' = "done"
               /\ history' = chatStreamHistory(h1, "", s.err)
               /\ ret' = [text |-> "", err |-> s.err]
               /\ turns' = Append(turns, Turn("ChatStream", m, s.err, ""))
          ELSE /\ pc' = "streaming"
               /\ history' = h1
               /\ ret' = NoRet
               /\ turns' = turns

\* send's loop has ended with (text, err): Stream and ChatStream return the
\* builder and err, and ChatStream stores the reply.
Return(err) ==
  /\ pc' = "done"
  /\ ret' = [text |-> out', err |-> err]
  /\ IF op = "ChatStream"
       THEN /\ history' = chatStreamHistory(history, out', err)
            /\ turns' = Append(turns, Turn("ChatStream", msg, err, out'))
       ELSE UNCHANGED <<history, turns>>

\* scanner.Scan() returns false: the body has ended, cleanly or on a read error.
ScanEnd ==
  /\ pc = "streaming"
  /\ pos = Len(resp.lines)
  /\ UNCHANGED <<pos, acc, out, sink>>
  /\ Return(scannerErr(resp, TRUE))
  /\ UNCHANGED <<op, msg, cred, resp, ctxDone, calls, req, hist0>>
  /\ UNCHANGED <<regVars, concVars>>

\* scanner.Scan() delivers the next line and the loop body runs on it.
ScanLine ==
  /\ pc = "streaming"
  /\ pos < Len(resp.lines)
  /\ LET st == scanLine(resp.lines[pos + 1], ctxDone)
     IN /\ pos' = scannerScan(pos)
        /\ IF st.next = "delta"
             THEN /\ sink' = fmtPrint(sink, st.delta)
                  /\ out' = WriteString(out, st.delta)
                  /\ acc' = WriteString(acc, st.delta)
             ELSE UNCHANGED <<sink, out, acc>>
        /\ CASE st.next = "return" -> Return(st.err)
             [] st.next = "break" -> Return(scannerErr(resp, FALSE))
             [] OTHER -> UNCHANGED <<pc, ret, history, turns>>
  /\ UNCHANGED <<op, msg, cred, resp, ctxDone, calls, req, hist0>>
  /\ UNCHANGED <<regVars, concVars>>

\* The caller cancels the context of the streaming call.
Cancel ==
  /\ pc = "streaming"
  /\ ~ctxDone
  /\ ctxDone' = TRUE
  /\ UNCHANGED <<history, pc, op, msg, cred, resp, pos, acc, out, sink, ret, calls,
                 req, hist0, turns>>
  /\ UNCHANGED <<regVars, concVars>>

ResetChat ==
  /\ Idle
  /\ history' = resetHistory(history)
  /\ pc' = "done"
  /\ op' = "ResetChat"
  /\ msg' = ""
  /\ cred' = NoCred
  /\ resp' = NoResponse
  /\ ctxDone' = FALSE
  /\ pos' = 0
  /\ acc' = ""
  /\ out' = ""
  /\ sink' = ""
  /\ ret' = NoRet
  /\ calls' = 0
  /\ req' = <<>>
  /\ hist0' = history
  /\ turns' = <<>>
  /\ UNCHANGED <<regVars, concVars>>

(* --------------------------- specifications --------------------------- *)

\* The credential lookup and the transport's answer for one call: without a
\* credential no request is made and nothing is answered.
Answers(rs) ==
  { <<c, r>> \in Creds \X (rs \cup {NoResponse}) :
      (c.err # nil \/ c.key = "") <=> (r = NoResponse) }

\* A conversation: any sequence of the five operations, one at a time.
Next ==
  \/ /\ Idle
     /\ \E m \in Msgs, a \in Answers(FailResponses \cup JsonResponses) :
          Prompt(m, a[1], a[2])
  \/ /\ Idle
     /\ \E m \in Msgs, a \in Answers(FailResponses \cup ChatBodies) :
          Stream(m, a[1], a[2])
  \/ /\ Idle
     /\ \E m \in Msgs, a \in Answers(FailResponses \cup JsonResponses) :
          ChatPrompt(m, a[1], a[2])
  \/ /\ Idle
     /\ \E m \in Msgs, a \in Answers(FailResponses \cup ChatBodies) :
          ChatStream(m, a[1], a[2])
  \/ ScanEnd
  \/ ScanLine
  \/ Cancel
  \/ ResetChat

Spec == Init /\ [][Next]_vars

\* One streamed call on a provider that has just been constructed, over every
\* body of at most MaxLines lines.
NextStream ==
  \/ /\ pc = "idle"
     /\ \E a \in Answers(AllBodies) : Stream("m1", a[1], a[2])
  \/ /\ pc = "idle"
     /\ \E a \in Answers(AllBodies) : ChatStream("m1", a[1], a[2])
  \/ ScanEnd
  \/ ScanLine
  \/ Cancel

SpecStream == Init /\ [][NextStream]_vars

\* The same, with a body that is delivered: as long as the loop runs,
\* scanner.Scan() returns, with a line or with the end of the body.
SpecStreamLive ==
  Init /\ [][NextStream]_vars /\ WF_vars(ScanLine) /\ WF_vars(ScanEnd)

\* Answers with a status other than 200. The body may be anything: an error
\* object, text that is no JSON, and it may as well carry what a good answer
\* carries (choices, streamed lines).
ErrStatuses == {400, StatusUnauthorized, 429, 500}
ErrCodes == { <<>>, <<"invalid_api_key">>, <<"rate_limit_exceeded">> }
ErrMessages ==
  { <<>>, <<"Incorrect API key", "provided">>, <<"Rate limit", "reached">> }
ErrBodies ==
  { ErrBody(TRUE, c, m) : c \in ErrCodes, m \in ErrMessages } \cup {NoErrBody}
ErrResponses ==
  { Response(nil, s, TRUE, <<"r1">>, b, <<LDelta("a"), LSentinel>>, FALSE) :
      s \in ErrStatuses, b \in ErrBodies }

\* One call on a provider that has just been constructed, answered with a
\* status other than 200.
NextErr ==
  \/ /\ pc = "idle"
     /\ \E m \in Msgs, a \in Answers(ErrResponses) : Prompt(m, a[1], a[2])
  \/ /\ pc = "idle"
     /\ \E m \in Msgs, a \in Answers(ErrResponses) : Stream(m, a[1], a[2])
  \/ /\ pc = "idle"
     /\ \E m \in Msgs, a \in Answers(ErrResponses) : ChatPrompt(m, a[1], a[2])
  \/ /\ pc = "idle"
     /\ \E m \in Msgs, a \in Answers(ErrResponses) : ChatStream(m, a[1], a[2])

SpecErr == Init /\ [][NextErr]_vars

(* ------------------------------ registry ------------------------------ *)

\* Register calls are made with at most this many providers.
MaxReg == 2

\* Provider names are strings, here the sequences of their bytes: "a", "ab",
\* "b", "B", and "z", which no provider bears.
nameA == <<97>>
nameAB == <<97, 98>>
nameB == <<98>>
nameUpperB == <<66>>
nameZ == <<122>>

\* A provider instance: its identity (the pointer) and what Name() returns.
dummyProvider(id, name) == [id |-> id, name |-> name]

\* The instances there are; two of them bear the same name.
Providers ==
  { dummyProvider(1, nameA), dummyProvider(2, nameA), dummyProvider(3, nameB),
    dummyProvider(4, nameAB), dummyProvider(5, nameUpperB) }

LookupNames == { p.name : p \in Providers } \cup {nameZ}

\* The order of Go strings: byte by byte, a proper prefix first.
LexLess(a, b) ==
  \E k \in 0..Len(a) :
     /\ k <= Len(b)
     /\ \A i \in 1..k : a[i] = b[i]
     /\ \/ k = Len(a) /\ k < Len(b)
        \/ k < Len(a) /\ k < Len(b) /\ a[k + 1] < b[k + 1]

RECURSIVE insertSorted(_, _)
insertSorted(x, s) ==
  IF s = <<>> THEN <<x>>
  ELSE IF LexLess(Head(s), x) THEN <<Head(s)>> \o insertSorted(x, Tail(s))
  ELSE <<x>> \o s

\* A Names that returns the names as the map handed them out.
slicesSort_none(names) == names

\* slices.Sort(names): the names in ascending order.
RECURSIVE slicesSort(_)
slicesSort(names) ==
  IF names = <<>> THEN <<>>
  ELSE insertSorted(Head(names), slicesSort(Tail(names)))

\* The orders in which ranging over a map with keys S can hand them out.
MapOrders(S) ==
  { f \in [1..Cardinality(S) -> S] : \A i, j \in DOMAIN f : f[i] = f[j] => i = j }

\* r.data[name] = p
store(d, name, p) ==
  [n \in DOMAIN d \cup {name} |-> IF n = name THEN p ELSE d[n]]

RegisterResult(d, stored, panicked) ==
  [data |-> d, stored |-> stored, panicked |-> panicked]

\* A Register that binds whatever it is given.
RECURSIVE registerLoop_overwrite(_, _, _)
registerLoop_overwrite(d, stored, ps) ==
  IF ps = <<>> THEN RegisterResult(d, stored, FALSE)
  ELSE registerLoop_overwrite(store(d, Head(ps).name, Head(ps)),
                              Append(stored, Head(ps)), Tail(ps))

\* A Register that binds the first provider it is given and no other.
registerLoop_firstOnly(d, stored, ps) ==
  IF ps = <<>> THEN RegisterResult(d, stored, FALSE)
  ELSE IF Head(ps).name \in DOMAIN d THEN RegisterResult(d, stored, TRUE)
  ELSE RegisterResult(store(d, Head(ps).name, Head(ps)),
                      Append(stored, Head(ps)), FALSE)

\* A Register that binds all the providers it is given or none of them.
registerLoop_atomic(d, stored, ps) ==
  IF \E i \in 1..Len(ps) :
        \/ ps[i].name \in DOMAIN d
        \/ \E j \in 1..(i - 1) : ps[j].name = ps[i].name
    THEN RegisterResult(d, stored, TRUE)
    ELSE registerLoop_overwrite(d, stored, ps)

\* The loop of Register over ps: a name already bound panics and leaves what
\* was stored before it; the deferred Unlock runs either way.
RECURSIVE registerLoop(_, _, _)
registerLoop(d, stored, ps) ==
  IF ps = <<>> THEN RegisterResult(d, stored, FALSE)
  ELSE IF Head(ps).name \in DOMAIN d THEN RegisterResult(d, stored, TRUE)
  ELSE registerLoop(store(d, Head(ps).name, Head(ps)),
                    Append(stored, Head(ps)), Tail(ps))

\* p, ok := r.data[name]
lookup(d, name) ==
  IF name \in DOMAIN d THEN [p |-> d[name], ok |-> TRUE]
  ELSE [p |-> NoProvider, ok |-> FALSE]

RegCall(o, arg, r, panicked) ==
  [op |-> o, arg |-> arg, ret |-> r, panicked |-> panicked,
   afterPanic |-> regCall.afterPanic \/ regCall.panicked]

\* A Register that unlocks as its last statement, which a panic never reaches.
unlock_noDefer(panicked) == IF panicked THEN "locked" ELSE "free"

\* defer r.mu.Unlock(): runs when Register returns and when it panics.
unlock(panicked) == "free"

\* r.mu.Lock(), the loop, and the deferred r.mu.Unlock().
Register(ps) ==
  LET r == registerLoop(data, <<>>, ps)
  IN /\ regMu = "free"
     /\ data' = r.data
     /\ bound' = bound \o r.stored
     /\ regCall' = RegCall("Register", ps, <<>>, r.panicked)
     /\ regMu' = unlock(r.panicked)
     /\ UNCHANGED <<provVars, concVars>>

\* r.mu.RLock(), the read, and the deferred r.mu.RUnlock().
Lookup(name) ==
  /\ regMu = "free"
  /\ regCall' = RegCall("Lookup", name, lookup(data, name), FALSE)
  /\ UNCHANGED <<data, bound, regMu>>
  /\ UNCHANGED <<provVars, concVars>>

Names ==
  /\ regMu = "free"
  /\ \E order \in MapOrders(DOMAIN data) :
        regCall' = RegCall("Names", <<>>, slicesSort(order), FALSE)
  /\ UNCHANGED <<data, bound, regMu>>
  /\ UNCHANGED <<provVars, concVars>>

\* A registry in use: the three methods in any order, a panic of Register
\* being recovered by the caller.
NextReg ==
  \/ \E ps \in SeqsUpTo(Providers, MaxReg) : Register(ps)
  \/ \E name \in LookupNames : Lookup(name)
  \/ Names

SpecReg == Init /\ [][NextReg]_vars

(* ---------------------------- concurrency ---------------------------- *)

\* What caller p says, and what the transport answers it when it answers well.
MsgOf(p) == "m" \o ToString(p)
ReplyOf(p) == "r" \o ToString(p)

\* The transport's answers to caller p: a body with a reply, a streamed body
\* with the same reply, and a failure.
ConcResponses(p) ==
  { RJson(TRUE, <<ReplyOf(p)>>),
    RStream(<<LDelta(ReplyOf(p)), LSentinel>>, FALSE),
    RDoErr("transport error") }

\* A mutex that lets everybody in.
canLock_always(m) == TRUE

\* p.mu.Lock() goes through when the mutex is free.
canLock(m) == m = 0

\* A copyHistory that returns p.history itself.
snapshot_alias(h) == Snapshot(TRUE, h)

\* copyHistory as a value with its storage: append([]Message(nil), ...) makes
\* new storage.
snapshot(h) == Snapshot(FALSE, copyHistory(h))

\* json.Marshal(chatReq{Messages: msgs}) in send: the messages as they are in
\* the storage msgs refers to at that moment.
marshal(snap, h) == IF snap.alias THEN h ELSE snap.msgs

\* The streaming loop of send run to its end over the lines from the i-th on,
\* with a context that is not cancelled.
RECURSIVE streamLoop(_, _, _)
streamLoop(r, i, sofar) ==
  IF i > Len(r.lines)
    THEN [text |-> sofar, err |-> scannerErr(r, TRUE)]
    ELSE LET st == scanLine(r.lines[i], FALSE)
         IN CASE st.next = "return" -> [text |-> sofar, err |-> st.err]
              [] st.next = "break" -> [text |-> sofar, err |-> scannerErr(r, FALSE)]
              [] st.next = "delta" ->
                   streamLoop(r, i + 1, WriteString(sofar, st.delta))
              [] OTHER -> streamLoop(r, i + 1, sofar)

\* send as a whole, with a credential in place: (text, err) as the caller of
\* send gets them, the text of a streamed call being what onDelta collected.
sendAll(r, stream) ==
  LET s == sendHead([key |-> "sk", err |-> nil], r, stream)
  IN IF s.done
       THEN [text |-> s.text, err |-> s.err]
       ELSE streamLoop(r, 1, "")

\* The assistant message the call pushes after send, as a sequence of none or
\* one.
replyOf(o, text, err) ==
  IF o = "ChatPrompt" THEN chatPromptHistory(<<>>, text, err)
  ELSE chatStreamHistory(<<>>, text, err)

Set(p, f) == [procs EXCEPT ![p] = f]

\* The variables of the sequential view, which concurrent callers leave alone.
seqVars ==
  << pc, op, msg, cred, resp, ctxDone, pos, acc, out, sink, ret, calls, req,
     hist0, turns >>

\* Caller p calls ChatPrompt or ChatStream.
Call(p, o) ==
  /\ procs[p].pc = "idle"
  /\ procs' = Set(p, [procs[p] EXCEPT !.pc = "pushUser", !.op = o])
  /\ UNCHANGED <<history, mu, resets, seqVars, regVars>>

\* push: p.mu.Lock(), and the read of p.history that append starts with.
PushLock(p) ==
  /\ procs[p].pc \in {"pushUser", "pushReply"}
  /\ canLock(mu)
  /\ mu' = p
  /\ procs' = Set(p, [procs[p] EXCEPT
                        !.pc = IF procs[p].pc = "pushUser"
                                 THEN "appendUser" ELSE "appendReply",
                        !.tmp = history])
  /\ UNCHANGED <<history, resets, seqVars, regVars>>

\* push: p.history = append(...), and the deferred p.mu.Unlock().
PushAppend(p) ==
  /\ procs[p].pc \in {"appendUser", "appendReply"}
  /\ history' = IF procs[p].pc = "appendUser"
                  THEN push(procs[p].tmp, "user", MsgOf(p))
                  ELSE push(procs[p].tmp, "assistant", procs[p].text)
  /\ mu' = 0
  /\ procs' = Set(p, [procs[p] EXCEPT
                        !.pc = IF procs[p].pc = "appendUser"
                                 THEN "copy" ELSE "done",
                        !.tmp = <<>>])
  /\ UNCHANGED <<resets, seqVars, regVars>>

\* copyHistory: lock, copy, unlock.
CopyHistory(p) ==
  /\ procs[p].pc = "copy"
  /\ canLock(mu)
  /\ procs' = Set(p, [procs[p] EXCEPT !.pc = "send",
                                      !.snap = snapshot(history),
                                      !.snapAt = history])
  /\ UNCHANGED <<history, mu, resets, seqVars, regVars>>

\* send, up to the request being handed to the transport, which answers r.
SendRequest(p, r) ==
  /\ procs[p].pc = "send"
  /\ procs' = Set(p, [procs[p] EXCEPT !.pc = "wait",
                                      !.wire = marshal(procs[p].snap, history),
                                      !.resp = r])
  /\ UNCHANGED <<history, mu, resets, seqVars, regVars>>

\* send returns, and the call goes on to store the reply or returns.
SendReturn(p) ==
  /\ procs[p].pc = "wait"
  /\ LET s == sendAll(procs[p].resp, procs[p].op = "ChatStream")
     IN procs' = Set(p, [procs[p] EXCEPT
                           !.pc = IF replyOf(procs[p].op, s.text, s.err) = <<>>
                                    THEN "done" ELSE "pushReply",
                           !.text = s.text,
                           !.err = s.err])
  /\ UNCHANGED <<history, mu, resets, seqVars, regVars>>

\* ResetChat called by yet another caller: lock, p.history = nil, unlock.
ResetChatAsync ==
  /\ resets < MaxResets
  /\ canLock(mu)
  /\ history' = resetHistory(history)
  /\ resets' = resets + 1
  /\ UNCHANGED <<mu, procs, seqVars, regVars>>

\* Chat calls of several callers on one provider, and ResetChat among them.
NextConc ==
  \/ \E p \in Procs, o \in {"ChatPrompt", "ChatStream"} : Call(p, o)
  \/ \E p \in Procs : PushLock(p)
  \/ \E p \in Procs : PushAppend(p)
  \/ \E p \in Procs : CopyHistory(p)
  \/ \E p \in Procs : \E r \in ConcResponses(p) : SendRequest(p, r)
  \/ \E p \in Procs : SendReturn(p)
  \/ ResetChatAsync

SpecConc == Init /\ [][NextConc]_vars

(* ------------------------------- claims ------------------------------- *)

IsChat(o) == o \in {"ChatPrompt", "ChatStream"}
IsStreamed(o) == o \in {"Stream", "ChatStream"}

\* The history a log of turns stands for when every turn asked and was answered.
RECURSIVE Exchanges(_)
Exchanges(ts) ==
  IF ts = <<>> THEN <<>>
  ELSE << Message("user", Head(ts).msg), Message("assistant", Head(ts).carried) >>
         \o Exchanges(Tail(ts))

\* C1: after n >= 1 successful ChatPrompt calls in sequence on an empty
\* history, the history holds exactly 2n messages: user_1, assistant_1, ...,
\* user_n, assistant_n, user_i holding the i-th text and assistant_i the text
\* the transport carried for the i-th call.
C1_ChatPromptTurns ==
  ( /\ pc = "done"
    /\ turns # <<>>
    /\ \A i \in 1..Len(turns) : turns[i].op = "ChatPrompt" /\ turns[i].ok )
  => /\ Len(history) = 2 * Len(turns)
     /\ history = Exchanges(turns)

C1_Witness ==
  /\ pc = "done"
  /\ Len(turns) = 2
  /\ \A i \in 1..2 : turns[i].op = "ChatPrompt" /\ turns[i].ok
  /\ turns[1].msg # turns[2].msg
  /\ turns[1].carried # turns[2].carried
  /\ Len(history) = 4

\* C2: a ChatPrompt or ChatStream call that fails, for whatever reason, leaves
\* the history as it was before the call plus one user message holding the
\* call's text: no assistant message, and the user message is not rolled back.
C2_FailedChatKeepsUser ==
  (pc = "done" /\ IsChat(op) /\ ret.err # nil)
  => history = Append(hist0, Message("user", msg))

C2_Witness ==
  /\ pc = "done"
  /\ op = "ChatStream"
  /\ ret.err = errCanceled
  /\ ret.text # ""
  /\ Len(hist0) = 2
  /\ Len(history) = 3

\* The history a log of turns stands for: each call's user message, followed
\* by its reply when the call succeeded with text.
RECURSIVE Asked(_)
Asked(ts) ==
  IF ts = <<>> THEN <<>>
  ELSE (IF Head(ts).ok /\ Head(ts).carried # ""
          THEN << Message("user", Head(ts).msg),
                  Message("assistant", Head(ts).carried) >>
          ELSE << Message("user", Head(ts).msg) >>)
       \o Asked(Tail(ts))

\* C3, as claimed: the history reflects only completed turns, so once a call
\* has returned no user message is left unanswered (each user message is
\* followed by an assistant message, never by another user message).
C3_NoDanglingUser ==
  pc = "done" =>
    \A i \in 1..Len(history) :
      history[i].role = "user"
        => (i < Len(history) /\ history[i + 1].role = "assistant")

\* C3, amended: at all times the history reflects every chat call since the
\* last reset, successful or not: each call's user message, followed by its
\* assistant reply exactly when the call succeeded with text (and, while a
\* ChatStream call is streaming, that call's user message at the end).
C3_HistoryReflectsEveryCall ==
  history =
    Asked(turns)
      \o (IF pc = "streaming" /\ op = "ChatStream"
            THEN << Message("user", msg) >> ELSE <<>>)

\* A failed call followed by a retry: two user messages in a row.
C3_Witness ==
  /\ pc = "done"
  /\ Len(turns) = 2
  /\ ~turns[1].ok
  /\ turns[2].ok
  /\ Len(history) = 3
  /\ history[1].role = "user"
  /\ history[2].role = "user"
  /\ history[3].role = "assistant"

\* The deltas of a body: the first choice of every well-formed data frame
\* with a choice, up to the first sentinel frame.
RECURSIVE Deltas(_)
Deltas(lines) ==
  IF lines = <<>> THEN <<>>
  ELSE LET l == Head(lines) IN
    IF l.pre = "data: " /\ l.raw = "[DONE]" THEN <<>>
    ELSE IF l.pre = "data: " /\ l.raw = "json" /\ l.choices # <<>>
      THEN <<l.choices[1]>> \o Deltas(Tail(lines))
      ELSE Deltas(Tail(lines))

RECURSIVE Concat(_)
Concat(ds) == IF ds = <<>> THEN "" ELSE Head(ds) \o Concat(Tail(ds))

HasSentinel(lines) ==
  \E i \in 1..Len(lines) : lines[i].pre = "data: " /\ lines[i].raw = "[DONE]"

\* The call's request was answered 200 and its body was read to the sentinel
\* or to a clean end without the context being cancelled.
CleanStream ==
  /\ calls = 1
  /\ resp.doErr = nil
  /\ resp.status = 200
  /\ ~ctxDone
  /\ (HasSentinel(resp.lines) \/ ~resp.readErr)

\* C4: ChatStream stores an assistant message only when the stream ended
\* without error and the accumulated text is not empty, and then stores the
\* whole text it returns; a stream that ends without error and without text
\* returns ("", nil) and stores no assistant message.
C4_ChatStreamReply ==
  (pc = "done" /\ op = "ChatStream") =>
    /\ history =
         IF ret.err = nil /\ ret.text # ""
           THEN hist0 \o << Message("user", msg), Message("assistant", ret.text) >>
           ELSE hist0 \o << Message("user", msg) >>
    /\ (CleanStream /\ Concat(Deltas(resp.lines)) = "")
         => (ret = [text |-> "", err |-> nil] /\ Len(history) = Len(hist0) + 1)
    /\ (CleanStream /\ Concat(Deltas(resp.lines)) # "")
         => /\ ret = [text |-> Concat(Deltas(resp.lines)), err |-> nil]
            /\ Len(history) = Len(hist0) + 2

C4_Witness ==
  /\ pc = "done"
  /\ op = "ChatStream"
  /\ CleanStream
  /\ resp.lines # <<>>
  /\ ret = [text |-> "", err |-> nil]
  /\ hist0 # <<>>
  /\ history = Append(hist0, Message("user", msg))

\* C5: ResetChat after any sequence of turns leaves the history empty, a
\* second ResetChat changes nothing, and the request of the chat call that
\* follows a reset carries exactly one message, the new user message.
C5_ResetChat ==
  /\ []((pc = "done" /\ op = "ResetChat") => history = <<>>)
  /\ [][ (op = "ResetChat" /\ op' = "ResetChat")
           => (history' = history /\ history' = <<>>) ]_vars
  /\ [][ (op = "ResetChat" /\ IsChat(op') /\ calls' = 1)
           => req' = << Message("user", msg') >> ]_vars

\* A reset that cleared a history of two turns.
C5_Witness ==
  /\ pc = "done"
  /\ op = "ResetChat"
  /\ Len(hist0) >= 3
  /\ history = <<>>

CredMissing == cred.err # nil \/ cred.key = ""

\* C6: without a credential (the lookup fails or returns an empty key) each
\* of Prompt, Stream, ChatPrompt and ChatStream returns a configuration error
\* at once: the transport is never called and nothing is printed.
C6_NoCredentialNoCall ==
  (op \in {"Prompt", "Stream", "ChatPrompt", "ChatStream"} /\ CredMissing)
  => /\ pc = "done"
     /\ ret.text = ""
     /\ ret.err = (IF cred.err # nil THEN cred.err ELSE errNoKey)
     /\ calls = 0
     /\ req = <<>>
     /\ sink = ""

C6_Witness ==
  /\ pc = "done"
  /\ op = "ChatStream"
  /\ cred = [key |-> "", err |-> nil]
  /\ ret.err = errNoKey
  /\ calls = 0
  /\ hist0 # <<>>

\* C7: Stream prints each delta as it arrives and in arrival order: at every
\* point what has been printed equals what has been accumulated, which is the
\* concatenation of the deltas of the lines read so far, and on success the
\* returned text is the concatenation of all deltas in arrival order.
C7_StreamInOrder ==
  op = "Stream" =>
    /\ sink = out
    /\ out = acc
    /\ pc = "streaming" => sink = Concat(Deltas(SubSeq(resp.lines, 1, pos)))
    /\ pc = "done" => ret.text = sink
    /\ (pc = "done" /\ calls = 1 /\ ret.err = nil)
         => ret.text = Concat(Deltas(resp.lines))

C7_Witness ==
  /\ pc = "done"
  /\ op = "Stream"
  /\ resp.lines = << LDelta("a"), LDelta("b"), LSentinel >>
  /\ ret = [text |-> "ab", err |-> nil]
  /\ sink = "ab"

\* The place of the first sentinel frame of a body that has one.
FirstSentinel(lines) ==
  CHOOSE i \in 1..Len(lines) :
    /\ lines[i].pre = "data: " /\ lines[i].raw = "[DONE]"
    /\ \A j \in 1..(i - 1) : ~(lines[j].pre = "data: " /\ lines[j].raw = "[DONE]")

\* C8: a data line whose payload is the sentinel ends the stream with a nil
\* error, whatever follows it: no line after the sentinel is read, printed
\* or added to the result.
C8_SentinelEnds ==
  ( /\ IsStreamed(op)
    /\ calls = 1 /\ resp.doErr = nil /\ resp.status = 200
    /\ HasSentinel(resp.lines) )
  => LET k == FirstSentinel(resp.lines) IN
       /\ pos <= k
       /\ pc = "streaming" => pos < k
       /\ (pc = "done" /\ ~ctxDone)
            => /\ pos = k
               /\ ret.err = nil
               /\ ret.text = Concat(Deltas(SubSeq(resp.lines, 1, k - 1)))
               /\ sink = ret.text

C8_Witness ==
  /\ pc = "done"
  /\ op = "Stream"
  /\ resp.lines = << LDelta("a"), LSentinel, LDelta("b") >>
  /\ resp.readErr
  /\ ret = [text |-> "a", err |-> nil]
  /\ sink = "a"
  /\ pos = 2

\* A line the loop passes over: one without the data-frame prefix, a data
\* frame that does not parse, or a data frame without choices.
Skipped(l) ==
  \/ l.pre # "data: "
  \/ l.raw # "[DONE]" /\ (l.raw # "json" \/ l.choices = <<>>)

\* C9: a line without the prefix, a frame that does not parse and a frame
\* without choices are passed over: the loop goes on, nothing is printed or
\* accumulated, no error is produced, and the result is the concatenation of
\* the deltas of the well-formed frames before the sentinel.
C9_SkippedLines ==
  /\ [][ ( /\ pc = "streaming" /\ ~ctxDone /\ pos' = pos + 1
           /\ Skipped(resp.lines[pos']) )
         => (pc' = "streaming" /\ UNCHANGED <<acc, out, sink, ret>>) ]_vars
  /\ []( ( /\ pc = "done" /\ IsStreamed(op) /\ CleanStream
           /\ \E i \in 1..Len(resp.lines) : Skipped(resp.lines[i]) )
         => (ret.err = nil /\ ret.text = Concat(Deltas(resp.lines))) )

C9_Witness ==
  /\ pc = "done"
  /\ op = "Stream"
  /\ resp.lines = << LBad, LComment, LDelta("a") >>
  /\ ~resp.readErr
  /\ ret = [text |-> "a", err |-> nil]

\* C10: once the context is cancelled while lines of the body remain, the
\* streamed call returns at the next line with the context's error and the
\* text accumulated up to then, which is exactly what has been printed;
\* nothing printed is taken back and nothing more is printed.
C10_CancelMidStream ==
  [][ (pc = "streaming" /\ ctxDone /\ pos < Len(resp.lines))
      => /\ pc' = "done"
         /\ ret' = [text |-> sink, err |-> errCanceled]
         /\ acc = sink
         /\ sink' = sink ]_vars

C10_Witness ==
  /\ pc = "done"
  /\ op = "ChatStream"
  /\ ctxDone
  /\ resp.lines = << LDelta("a"), LDelta("b"), LSentinel >>
  /\ pos = 2
  /\ ret = [text |-> "a", err |-> errCanceled]
  /\ sink = "a"

\* C11: a streamed call whose context was cancelled before it returned never
\* returns success: whatever remains of the body (data frames, the sentinel or
\* its end), it returns the context's error.
C11_CancelNeverSucceeds ==
  (pc = "done" /\ IsStreamed(op) /\ ctxDone) => ret.err = errCanceled

\* C12: Prompt and Stream have no history side effects: from the start of the
\* call to its return, whatever its outcome, the history is the one the call
\* found; and the request they send holds exactly one message, the prompt as a
\* user message, whatever the history is.
C12_OneShotLeavesHistory ==
  (op \in {"Prompt", "Stream"}) =>
     /\ history = hist0
     /\ calls = 1 => req = <<[role |-> "user", content |-> msg]>>

\* Both one-shot calls happen on a provider that holds a conversation: one
\* fails after its request went out, the other streams to a successful end.
C12_Witness ==
  /\ pc = "done"
  /\ Len(history) = 2
  /\ calls = 1
  /\ \/ op = "Prompt" /\ ret.err # nil
     \/ op = "Stream" /\ ret.err = nil /\ ret.text # ""

\* C13: for a 200 response the payload decides what Prompt returns: a body
\* that does not decode gives the decode error; one that decodes to no choice,
\* or to a first choice without content, gives the empty-response error; any
\* other gives the first choice's content and no error. No Prompt at all
\* returns an empty text without an error.
C13_PromptPayload ==
  (op = "Prompt" /\ pc = "done") =>
     /\ ~(ret.text = "" /\ ret.err = nil)
     /\ (calls = 1 /\ resp.doErr = nil /\ resp.status = StatusOK) =>
          \/ ~resp.decodes /\ ret = [text |-> "", err |-> errDecode]
          \/ /\ resp.decodes
             /\ resp.choices = <<>> \/ Head(resp.choices) = ""
             /\ ret = [text |-> "", err |-> errEmpty]
          \/ /\ resp.decodes
             /\ resp.choices # <<>>
             /\ Head(resp.choices) # ""
             /\ ret = [text |-> Head(resp.choices), err |-> nil]

\* Prompt gets a 200 whose only choice has no content.
C13_Witness ==
  /\ op = "Prompt"
  /\ pc = "done"
  /\ resp.status = StatusOK
  /\ resp.decodes
  /\ resp.choices = <<"">>
  /\ ret.err = errEmpty

\* The three kinds of error a status other than 200 can give.
IsAuthError(e) == e = "InvalidAPIKeyError"
IsGenericError(e) == \E m \in ErrMessages : e = "API error: " \o joinWords(m)
IsStatusError(e) ==
  \E s \in {"400", "401", "429", "500"} :
     e = "API request failed with status " \o s \o ": {bad"

\* C14: an answer with a status other than 200 never yields text, and its
\* error is of exactly one of three kinds, decided by the status and the error
\* body alone: InvalidAPIKeyError when the body parses and the status is 401
\* or error.code holds invalid_api_key or error.message holds "Incorrect API
\* key"; "API error: <message>" for any other body that parses; "API request
\* failed with status <code>" for a body that does not parse.
C14_ErrorClasses ==
  (pc = "done" /\ calls = 1 /\ resp.doErr = nil /\ resp.status # StatusOK) =>
     LET b == resp.errBody
         auth == /\ b.parses
                 /\ \/ resp.status = 401
                    \/ \E i \in 1..Len(b.code) : b.code[i] = "invalid_api_key"
                    \/ \E i \in 1..Len(b.message) :
                          b.message[i] = "Incorrect API key"
     IN /\ ret.text = ""
        /\ sink = ""
        /\ IsAuthError(ret.err) <=> auth
        /\ IsGenericError(ret.err) <=> (b.parses /\ ~auth)
        /\ IsStatusError(ret.err) <=> ~b.parses
        /\ (b.parses /\ ~auth) => ret.err = "API error: " \o joinWords(b.message)

\* A 400 whose error code names the key is an authentication error, though
\* the body also carries a choice.
C14_Witness ==
  /\ pc = "done"
  /\ calls = 1
  /\ resp.status = 400
  /\ resp.errBody.parses
  /\ resp.errBody.code = <<"invalid_api_key">>
  /\ resp.errBody.message = <<>>
  /\ resp.choices # <<>>
  /\ ret.err = errInvalidKey

\* C15: no operation retries. Each call of Prompt, Stream, ChatPrompt or
\* ChatStream hands at most one request to the transport, exactly one when a
\* credential is configured; and when the transport fails, the call returns
\* the transport's own error with an empty text.
C15_NoRetry ==
  (op \in {"Prompt", "Stream", "ChatPrompt", "ChatStream"}) =>
     /\ calls <= 1
     /\ calls = 1 <=> (cred.err = nil /\ cred.key # "")
     /\ (pc = "done" /\ calls = 1 /\ resp.doErr # nil) =>
          /\ ret = [text |-> "", err |-> resp.doErr]
          /\ sink = ""

\* A chat call whose transport failed.
C15_Witness ==
  /\ pc = "done"
  /\ IsChat(op)
  /\ calls = 1
  /\ resp.doErr = "transport error"
  /\ ret.err = "transport error"

\* C19: through any series of chat turns, failures and resets, the request of
\* a ChatPrompt or ChatStream call holds the whole history as it is when the
\* turn starts, in order, followed by the new user message as its last
\* element: it is the history at the moment of sending, and stays the
\* beginning of the history while the call runs.
C19_RequestCarriesHistory ==
  (IsChat(op) /\ calls = 1) =>
     /\ req = hist0 \o <<[role |-> "user", content |-> msg]>>
     /\ Len(history) >= Len(req)
     /\ SubSeq(history, 1, Len(req)) = req

\* A turn that follows a failed one: its request holds the unanswered user
\* message and then its own.
C19_Witness ==
  /\ IsChat(op)
  /\ calls = 1
  /\ Len(turns) = 2
  /\ ~turns[1].ok
  /\ Len(req) = 2
  /\ req[1].content # req[2].content

IsPrefix(s, t) == Len(s) <= Len(t) /\ SubSeq(t, 1, Len(s)) = s

\* C20: the history is append-only but for ResetChat: every step of every
\* other operation leaves the history it found as the beginning of the new
\* one, and a chat call appends at most two messages from start to return.
C20_AppendOnly ==
  /\ [][op' # "ResetChat" => IsPrefix(history, history')]_vars
  /\ [](IsChat(op) =>
          IsPrefix(hist0, history) /\ Len(history) <= Len(hist0) + 2)

\* A successful second turn: two messages came on top of the two there were.
C20_Witness ==
  /\ IsChat(op)
  /\ pc = "done"
  /\ Len(hist0) = 2
  /\ Len(history) = 4

\* The providers Register has stored under a name, in the order stored.
StoredAs(n) == SelectSeq(bound, LAMBDA p : p.name = n)

\* C16: Lookup of a name Register has bound returns found = TRUE and the very
\* instance that was registered under it; Lookup of a name never registered
\* returns found = FALSE and no provider, without a panic; Lookup leaves the
\* registry as it is; and a Register call that returns, of one provider or
\* of several, has bound each of them.
C16_LookupAfterRegister ==
  /\ [](regCall.op = "Lookup" =>
          /\ ~regCall.panicked
          /\ IF StoredAs(regCall.arg) # <<>>
               THEN /\ regCall.ret.ok
                    /\ regCall.ret.p = Head(StoredAs(regCall.arg))
               ELSE regCall.ret = [p |-> NoProvider, ok |-> FALSE])
  /\ [][regCall'.op = "Lookup" => data' = data /\ bound' = bound]_vars
  /\ [][(regCall'.op = "Register" /\ ~regCall'.panicked) =>
          \A i \in 1..Len(regCall'.arg) :
             /\ regCall'.arg[i].name \in DOMAIN data'
             /\ data'[regCall'.arg[i].name] = regCall'.arg[i]]_vars

\* With several providers registered, Lookup finds the second of the two
\* instances named "a": that one was registered, the first never was.
C16_Witness ==
  /\ regCall.op = "Lookup"
  /\ regCall.arg = nameA
  /\ regCall.ret.ok
  /\ regCall.ret.p.id = 2
  /\ Len(bound) >= 2

\* C17: Names returns every registered name exactly once, in ascending
\* byte-wise order, whatever the order of registration and whatever order the
\* map hands the names out in, and leaves the registry as it is.
C17_NamesSorted ==
  /\ [](regCall.op = "Names" =>
          LET r == regCall.ret
          IN /\ { r[i] : i \in 1..Len(r) } = { bound[i].name : i \in 1..Len(bound) }
             /\ \A i, j \in 1..Len(r) : i < j => LexLess(r[i], r[j])
             /\ ~regCall.panicked)
  /\ [][regCall'.op = "Names" => data' = data /\ bound' = bound]_vars

\* Four names registered in descending order come back ascending, upper case
\* before lower case and a prefix before its extensions.
C17_Witness ==
  /\ regCall.op = "Names"
  /\ regCall.ret = <<nameUpperB, nameA, nameAB, nameB>>
  /\ Len(bound) = 4
  /\ bound[1].name = nameB
  /\ bound[2].name = nameAB
  /\ bound[3].name = nameA
  /\ bound[4].name = nameUpperB

\* C18: Register panics exactly when it comes to a provider whose name is
\* already bound (from an earlier call or earlier in the same call), it has
\* nothing to return an error in, and it never replaces or removes a binding:
\* the names stay unique and each is bound to the first provider stored
\* under it.
C18_DuplicatePanics ==
  /\ [][regCall'.op = "Register" =>
          LET ps == regCall'.arg
          IN /\ regCall'.ret = <<>>
             /\ regCall'.panicked <=>
                  \E i \in 1..Len(ps) :
                     \/ ps[i].name \in DOMAIN data
                     \/ \E j \in 1..(i - 1) : ps[j].name = ps[i].name]_vars
  /\ [][\A n \in DOMAIN data : n \in DOMAIN data' /\ data'[n] = data[n]]_vars
  /\ [](\A n \in DOMAIN data :
          /\ Len(StoredAs(n)) = 1
          /\ data[n] = Head(StoredAs(n)))

\* Register(b, a') with another "a" already bound: b is stored, the call
\* panics on a', and "a" is still bound to the instance registered first.
C18_Witness ==
  /\ regCall.op = "Register"
  /\ regCall.panicked
  /\ regCall.arg = <<dummyProvider(3, nameB), dummyProvider(2, nameA)>>
  /\ bound = <<dummyProvider(1, nameA), dummyProvider(3, nameB)>>
  /\ data[nameA] = dummyProvider(1, nameA)
  /\ data[nameB] = dummyProvider(3, nameB)

\* C23: through any series of ChatPrompt, ChatStream and ResetChat calls,
\* whatever their outcomes, the history is empty or begins with a user
\* message, and every assistant message comes right after a user message, so
\* that no two assistant messages are adjacent. (User messages can be: see the
\* witness.)
C23_AssistantFollowsUser ==
  /\ history # <<>> => history[1].role = "user"
  /\ \A i \in 1..Len(history) :
        history[i].role = "assistant" =>
           i > 1 /\ history[i - 1].role = "user"

\* Two user messages in a row, left by a failed turn, and then a reply.
C23_Witness ==
  /\ pc = "done"
  /\ Len(history) = 3
  /\ history[1].role = "user"
  /\ history[2].role = "user"
  /\ history[3].role = "assistant"

\* C24: no assistant message with empty content is ever in the history,
\* after any sequence of chat operations: ChatPrompt stores a reply only on
\* success, which needs content, and ChatStream only when text was streamed.
C24_NoEmptyAssistant ==
  \A i \in 1..Len(history) :
     history[i].role = "assistant" => history[i].content # ""

\* A ChatStream that succeeded without any text: only the user message came.
C24_Witness ==
  /\ op = "ChatStream"
  /\ pc = "done"
  /\ calls = 1
  /\ ret = [text |-> "", err |-> nil]
  /\ pos > 0
  /\ history = Append(hist0, [role |-> "user", content |-> msg])

\* C28: a ChatStream that ends with an error after deltas were printed
\* (a cancellation or a read error) returns what was printed together with the
\* error, and the history gains the user message alone; the request of a later
\* turn holds no assistant message but the replies of turns that succeeded.
C28_PartialNotStored ==
  /\ (op = "ChatStream" /\ pc = "done" /\ ret.err # nil /\ sink # "") =>
        /\ ret.text = sink
        /\ history = Append(hist0, [role |-> "user", content |-> msg])
  /\ (IsChat(op) /\ calls = 1) =>
        \A i \in 1..Len(req) :
           req[i].role = "assistant" =>
              \E k \in 1..Len(turns) :
                 turns[k].ok /\ turns[k].carried = req[i].content

\* A second turn, a ChatStream cancelled once text had been printed: it
\* returns that text and the error, and the history ends with its user message.
C28_Witness ==
  /\ op = "ChatStream"
  /\ pc = "done"
  /\ ret.err = errCanceled
  /\ ret.text # ""
  /\ sink = ret.text
  /\ Len(hist0) > 0
  /\ Len(history) = Len(hist0) + 1

\* The place in ps of the first provider whose name is bound in d or borne by
\* a provider before it in ps.
FirstDuplicate(d, ps) ==
  CHOOSE k \in 1..Len(ps) :
     /\ \/ ps[k].name \in DOMAIN d
        \/ \E j \in 1..(k - 1) : ps[j].name = ps[k].name
     /\ \A i \in 1..(k - 1) :
           /\ ps[i].name \notin DOMAIN d
           /\ \A j \in 1..(i - 1) : ps[j].name # ps[i].name

\* C27: a Register call with several providers is applied one provider at a
\* time. When it panics on a duplicate name, the providers before the
\* duplicate in the call are registered, the duplicate name keeps the
\* binding it had, nothing after the duplicate is registered, and the lock is
\* free again, so that later Lookup, Names and Register calls go ahead.
C27_PartialRegister ==
  /\ [][(regCall'.op = "Register" /\ regCall'.panicked) =>
          LET ps == regCall'.arg
              k == FirstDuplicate(data, ps)
              before == { ps[j].name : j \in 1..(k - 1) }
          IN /\ DOMAIN data' = DOMAIN data \cup before
             /\ \A j \in 1..(k - 1) : data'[ps[j].name] = ps[j]
             /\ \A n \in DOMAIN data : data'[n] = data[n]]_vars
  /\ [](regMu = "free")

\* After Register(b, a') panicked on a', with b stored, Names is called and
\* answers.
C27_Witness ==
  /\ regCall.op = "Names"
  /\ regCall.afterPanic
  /\ regCall.ret = <<nameA, nameB>>
  /\ bound = <<dummyProvider(1, nameA), dummyProvider(3, nameB)>>

\* C30: for every finite body a streaming send returns. While the loop runs,
\* a step either ends it, or moves on by exactly one line of the body (be it
\* skipped: without the prefix, not parsing, without choices), or is the
\* caller cancelling; it ends at the first sentinel, at the end of the body
\* (cleanly or on a read error) or on a cancellation it saw; and it does end.
C30_StreamReturns ==
  /\ [][pc = "streaming" =>
          \/ pc' = "done"
          \/ /\ pc' = "streaming"
             /\ pos' = pos + 1
             /\ pos' <= Len(resp.lines)
             /\ ctxDone' = ctxDone
          \/ /\ pc' = "streaming"
             /\ pos' = pos
             /\ ~ctxDone /\ ctxDone']_vars
  /\ []((pc = "done" /\ IsStreamed(op) /\ calls = 1 /\ resp.doErr = nil
           /\ resp.status = 200) =>
          \/ /\ pos > 0
             /\ resp.lines[pos].pre = "data: " /\ resp.lines[pos].raw = "[DONE]"
             /\ ret.err = nil
          \/ pos = Len(resp.lines) /\ ret.err = (IF resp.readErr THEN errRead ELSE nil)
          \/ pos > 0 /\ ctxDone /\ ret.err = errCanceled)
  /\ (pc = "streaming") ~> (pc = "done")

\* A body of nothing but lines the loop passes over has been read to its end.
C30_Witness ==
  /\ pc = "done"
  /\ IsStreamed(op)
  /\ resp.lines = <<LBad, LComment, LNoChoice>>
  /\ pos = 3
  /\ ret = [text |-> "", err |-> nil]

AllDone == \A p \in Procs : procs[p].pc = "done"

\* C21: when two chat calls run side by side on one provider (and nobody
\* resets), their turns do not interleave: in the history they leave, every
\* assistant reply comes right after the user message of the call it belongs
\* to, as in some serial execution of the two.
C21_TurnsDoNotInterleave ==
  (AllDone /\ resets = 0) =>
     \A i \in 1..Len(history) :
        history[i].role = "assistant" =>
           \E p \in Procs :
              /\ history[i].content = ReplyOf(p)
              /\ i > 1
              /\ history[i - 1] = [role |-> "user", content |-> MsgOf(p)]

\* The callers whose request has been handed to the transport.
Sent(p) == procs[p].pc \in {"wait", "pushReply", "appendReply", "done"}

\* C22: the messages of a request are a copy of the history, not an alias: a
\* ResetChat or an append of another turn that comes after the snapshot was
\* taken does not change what the request carries, which is the history as
\* it was when the snapshot was taken.
C22_RequestIsACopy ==
  \A p \in Procs : Sent(p) => procs[p].wire = procs[p].snapAt

\* Caller 1's request is out with its user message, while the history has
\* since been reset and holds the user message of caller 2.
C22_Witness ==
  /\ procs[1].pc = "wait"
  /\ procs[1].wire = <<[role |-> "user", content |-> "m1"]>>
  /\ resets = 1
  /\ history = <<[role |-> "user", content |-> "m2"]>>

\* C25: with ResetChat running beside one chat call, the history never holds
\* an orphan reply: when not empty it begins with a user message, and every
\* assistant message comes right after the user message it answers.
C25_NoOrphanReply ==
  (procs[2].pc = "idle") =>
     /\ history # <<>> => history[1].role = "user"
     /\ \A i \in 1..Len(history) :
           history[i].role = "assistant" =>
              /\ i > 1
              /\ history[i - 1] = [role |-> "user", content |-> MsgOf(1)]

\* C26: in every interleaving with ResetChat and other chat calls, the
\* request a chat call sends holds that call's own user message.
C26_RequestHasOwnMessage ==
  \A p \in Procs :
     Sent(p) =>
        \E i \in 1..Len(procs[p].wire) :
           procs[p].wire[i] = [role |-> "user", content |-> MsgOf(p)]

\* How often message m is in the sequence h.
Count(h, m) == Cardinality({ i \in 1..Len(h) : h[i] = m })

\* The calls that returned without an error, and those that had a reply to
\* store.
Succeeded == { p \in Procs : procs[p].err = nil }
Replied == { p \in Procs : procs[p].err = nil /\ procs[p].text # "" }

\* C29 as stated: with no ResetChat, once all calls have returned the history
\* holds each call's user message once and each successful call's reply once,
\* its length being the number of calls plus the number of successful calls.
C29_LengthCallsPlusSuccesses ==
  (AllDone /\ resets = 0) =>
     /\ \A p \in Procs :
           Count(history, [role |-> "user", content |-> MsgOf(p)]) = 1
     /\ \A p \in Succeeded :
           Count(history, [role |-> "assistant", content |-> procs[p].text]) = 1
     /\ Len(history) = Cardinality(Procs) + Cardinality(Succeeded)

\* C29, amended: no append is lost. With no ResetChat, once all calls have
\* returned the history holds each call's user message exactly once and the
\* reply of each call that succeeded with text exactly once, and nothing
\* else: its length is the number of calls plus the number of calls that
\* succeeded with text (a ChatStream that succeeds without text stores none).
C29_NoLostAppend ==
  (AllDone /\ resets = 0) =>
     /\ \A p \in Procs :
           Count(history, [role |-> "user", content |-> MsgOf(p)]) = 1
     /\ \A p \in Replied :
           Count(history, [role |-> "assistant", content |-> procs[p].text]) = 1
     /\ Len(history) = Cardinality(Procs) + Cardinality(Replied)

\* Both calls have returned with a reply, and the four messages are there.
C29_Witness ==
  /\ AllDone
  /\ resets = 0
  /\ Replied = Procs
  /\ Len(history) = 4

====
